---- MODULE Spec2Model ----
(***************************************************************************)
(* Session controller of app.py: the process-wide references agent,        *)
(* cb_mcp_client and pg_mcp_client, the configuration flags, and the       *)
(* Chainlit callbacks that read and write them.  Every callback is a       *)
(* coroutine; a step of the model runs one callback from one await on a    *)
(* remote collaborator (close, connect_sse, agent.run) to the next one.    *)
(***************************************************************************)
EXTENDS Integers, Sequences, FiniteSets, TLC

\* init_agent invocations in a run (each one creates fresh identities).
MaxInits == 2

\* Tools the Couchbase and the PostgreSQL MCP server report to a connected client.
CbToolCount == 2

PgToolCount == 1

\* The chat sessions served by the one process: two, so that any callback of
\* one session can run between two awaits of a callback of the other.
Sessions == {1, 2}

\* Python's None, for a client handle and for the agent.
None == [n |-> 0, by |-> 0, be |-> "none"]

NoAgent == [id |-> 0, by |-> 0, cbTools |-> None, pgTools |-> None,
            cbActive |-> FALSE, pgActive |-> FALSE,
            cbConnected |-> FALSE, pgConnected |-> FALSE, prompt |-> FALSE,
            tools |-> <<>>]

\* The process has not called os._exit.
Running == -1

\* Outcomes of the remote collaborators.
CloseOutcomes == {"ok", "RuntimeError", "OtherError"}

ConnectOutcomes == {"ok", "raise"}

RunOutcomes == {"content", "empty", "raise"}

VARIABLES
    agent,            \* global agent
    cb_mcp_client,    \* global cb_mcp_client
    pg_mcp_client,    \* global pg_mcp_client
    CB_MCP_ACTIVE,    \* global configuration flag
    PG_MCP_ACTIVE,    \* global configuration flag
    closeCalled,      \* handles on which close() has been called
    connected,        \* handles whose connect_sse() returned
    nInits,           \* init_agent invocations so far
    exitCode,         \* Running, or the code given to os._exit
    ui,               \* per session, what its page shows: "closed" (nothing),
                      \* "chat" (the input box), "actions" (and the buttons)
    ctl,              \* per session: controller state of the spec
    pc,               \* per session: await point of its running callback
    loc,              \* per session: locals of its running callback
    last,             \* the callback that returned in the latest step, if any
    swallowed         \* the handle whose close() raised the RuntimeError that
                      \* the latest step caught and discarded, if any

vars == <<agent, cb_mcp_client, pg_mcp_client, CB_MCP_ACTIVE, PG_MCP_ACTIVE,
          closeCalled, connected, nInits, exitCode, ui, ctl, pc, loc, last,
          swallowed>>

\* A fresh MCPClient(persistent_connections=True) of invocation n.
MCPClient(n, s, backend) == [n |-> n, by |-> s, be |-> backend]

\* Locals of a callback at its entry.
NewLoc(st, cbk, sentBefore) ==
    [cbk |-> cbk, inv |-> st.nInits,
     cfgCb |-> st.CB_MCP_ACTIVE, cfgPg |-> st.PG_MCP_ACTIVE,
     snapCb |-> st.cb, snapPg |-> st.pg,
     closes |-> {},
     cbSeen |-> "unread", pgSeen |-> "unread",
     cbConnects |-> 0, pgConnects |-> 0,
     cbOk |-> FALSE, pgOk |-> FALSE,
     runs |-> 0, runAgent |-> 0,
     sent |-> sentBefore, status |-> <<>>, ok |-> FALSE, err |-> "none"]

IdleLoc == [cbk |-> "none", inv |-> 0, cfgCb |-> FALSE, cfgPg |-> FALSE, snapCb |-> None, snapPg |-> None,
            closes |-> {}, cbSeen |-> "unread", pgSeen |-> "unread",
            cbConnects |-> 0, pgConnects |-> 0, cbOk |-> FALSE, pgOk |-> FALSE,
            runs |-> 0, runAgent |-> 0, sent |-> <<>>, status |-> <<>>, ok |-> FALSE,
            err |-> "none"]

\* No callback returned in the latest step.
Quiet == [s |-> 0, loc |-> IdleLoc]

\* The part of the state one callback step of session s reads and writes.
Store(s) ==
    [s |-> s, last |-> Quiet, swallowed |-> None,
     agent |-> agent, cb |-> cb_mcp_client, pg |-> pg_mcp_client,
     CB_MCP_ACTIVE |-> CB_MCP_ACTIVE, PG_MCP_ACTIVE |-> PG_MCP_ACTIVE,
     closeCalled |-> closeCalled, connected |-> connected, nInits |-> nInits,
     ui |-> ui[s], ctl |-> ctl[s], pc |-> pc[s], loc |-> loc[s]]

\* The client objects something still refers to: the globals, the tools of
\* the agent, the list of a cleanup loop, the client of a pending connect_sse.
\* What happened to an object nothing refers to is not part of the state.
Referenced(ag, c, p, pcs, locs) ==
    {c, p, ag.cbTools, ag.pgTools}
        \cup UNION {{locs[x].snapCb, locs[x].snapPg} : x \in Sessions}
        \cup {MCPClient(locs[x].inv, x, "cb") : x \in {y \in Sessions : pcs[y] = "conn_cb"}}
        \cup {MCPClient(locs[x].inv, x, "pg") : x \in {y \in Sessions : pcs[y] = "conn_pg"}}

Commit(s, st) ==
    /\ agent' = st.agent
    /\ cb_mcp_client' = st.cb
    /\ pg_mcp_client' = st.pg
    /\ CB_MCP_ACTIVE' = st.CB_MCP_ACTIVE
    /\ PG_MCP_ACTIVE' = st.PG_MCP_ACTIVE
    /\ nInits' = st.nInits
    /\ LET live == Referenced(st.agent, st.cb, st.pg,
                              [pc EXCEPT ![s] = st.pc], [loc EXCEPT ![s] = st.loc])
       IN /\ closeCalled' = st.closeCalled \cap live
          /\ connected' = st.connected \cap live
    /\ ui' = [ui EXCEPT ![s] = st.ui]
    /\ ctl' = [ctl EXCEPT ![s] = st.ctl]
    /\ pc' = [pc EXCEPT ![s] = st.pc]
    /\ loc' = [loc EXCEPT ![s] = st.loc]
    /\ last' = st.last
    /\ swallowed' = st.swallowed

Send(st, kind, text) ==
    [st EXCEPT !.loc.sent = Append(@, [kind |-> kind, text |-> text])]

\* client.close() is called and the coroutine suspends on it.
CallClose(st, h, at) ==
    [st EXCEPT !.closeCalled = @ \cup {h},
               !.loc.closes = @ \cup {h},
               !.pc = at]

\* CloseReturned with the loop left at the RuntimeError.
CloseReturnedLeavesLoop(st, h, o) ==
    IF o = "RuntimeError"
    THEN [st EXCEPT !.swallowed = h, !.loc.snapPg = None]
    ELSE st

\* Lines 54-57 and 129-132: await client.close() returned, or raised a
\* RuntimeError, which is caught and discarded.
CloseReturned(st, h, o) ==
    IF o = "RuntimeError" THEN [st EXCEPT !.swallowed = h] ELSE st

\* The callback returns (or is left by an exception): its locals are gone.
Return(st) ==
    [st EXCEPT !.pc = "idle", !.last = [s |-> st.s, loc |-> st.loc], !.loc = IdleLoc]

\* except Exception in on_chat_start / on_reset_action / on_reload_env_action.
FailureKind(cbk) ==
    CASE cbk = "start" -> "FailedToConnect"
      [] cbk = "reset" -> "ResetFailed"
      [] OTHER -> "ReloadFailed"

InitFailed(st, err) ==
    Return(Send([st EXCEPT !.ctl = "ERROR", !.loc.ok = FALSE, !.loc.err = err],
                FailureKind(st.loc.cbk), err))

\* client.get_all_tools(): the tools the server reported when the client
\* connected; a client that has not connected yet has none.
get_all_tools(st, client) ==
    IF client \in st.connected
    THEN [i \in 1..(IF client.be = "cb" THEN CbToolCount ELSE PgToolCount) |->
             [client |-> client, i |-> i]]
    ELSE <<>>

\* Lines 77-81.
all_tools(st) ==
    (IF st.cb # None THEN get_all_tools(st, st.cb) ELSE <<>>)
        \o (IF st.pg # None THEN get_all_tools(st, st.pg) ELSE <<>>)

\* Lines 103-109: one part per client the globals name, with its tool count.
status_parts(st) ==
    (IF st.cb # None
     THEN <<[backend |-> "Couchbase MCP", tools |-> Len(get_all_tools(st, st.cb))]>>
     ELSE <<>>)
        \o (IF st.pg # None
            THEN <<[backend |-> "PostgreSQL MCP", tools |-> Len(get_all_tools(st, st.pg))]>>
            ELSE <<>>)

\* init_agent returned: the status / confirmation message of the caller.
SuccessKind(cbk) ==
    CASE cbk = "start" -> "Connected"
      [] cbk = "reset" -> "AgentReset"
      [] OTHER -> "EnvReloaded"

InitSucceeded(st) ==
    Return(Send([st EXCEPT !.ctl = "READY",
                           !.ui = IF st.loc.cbk = "start" THEN "actions" ELSE @,
                           !.loc.status = IF st.loc.cbk = "start" THEN status_parts(st) ELSE @,
                           !.loc.ok = TRUE],
                SuccessKind(st.loc.cbk), "ok"))

\* Agent(...) built from the tools of the clients the globals now name.
NewAgent(s, st, promptOk) ==
    [id |-> st.loc.inv, by |-> s,
     cbTools |-> st.cb, pgTools |-> st.pg,
     cbActive |-> (st.loc.cbSeen = "true"), pgActive |-> (st.loc.pgSeen = "true"),
     cbConnected |-> st.loc.cbOk, pgConnected |-> st.loc.pgOk,
     prompt |-> promptOk,
     tools |-> all_tools(st)]

\* Lines 72-93: the zero-backend check, load_system_prompt, Agent(...).
BuildAgent(s, st, promptOk, ctorOk) ==
    IF ~st.CB_MCP_ACTIVE /\ ~st.PG_MCP_ACTIVE THEN InitFailed(st, "NoDBAvailable")
    ELSE IF ~promptOk THEN InitFailed(st, "FileNotFound")
    ELSE IF ~ctorOk THEN InitFailed(st, "AgentError")
    ELSE InitSucceeded([st EXCEPT !.agent = NewAgent(s, st, promptOk)])

\* Lines 67-70, up to the await on connect_sse.
ConnectPg(s, st, promptOk, ctorOk) ==
    IF st.PG_MCP_ACTIVE
    THEN [st EXCEPT !.pg = MCPClient(st.loc.inv, s, "pg"),
                    !.loc.pgSeen = "true",
                    !.loc.pgConnects = @ + 1,
                    !.pc = "conn_pg"]
    ELSE BuildAgent(s, [st EXCEPT !.loc.pgSeen = "false"], promptOk, ctorOk)

\* ConnectCb with the client of before the cleanup kept when there was one.
ConnectCbKeepsClient(s, st, promptOk, ctorOk) ==
    IF st.CB_MCP_ACTIVE
    THEN [st EXCEPT !.cb = IF st.loc.snapCb # None THEN st.loc.snapCb
                           ELSE MCPClient(st.loc.inv, s, "cb"),
                    !.loc.cbSeen = "true",
                    !.loc.cbConnects = @ + 1,
                    !.pc = "conn_cb"]
    ELSE ConnectPg(s, [st EXCEPT !.loc.cbSeen = "false"], promptOk, ctorOk)

\* Lines 62-65, up to the await on connect_sse.
ConnectCb(s, st, promptOk, ctorOk) ==
    IF st.CB_MCP_ACTIVE
    THEN [st EXCEPT !.cb = MCPClient(st.loc.inv, s, "cb"),
                    !.loc.cbSeen = "true",
                    !.loc.cbConnects = @ + 1,
                    !.pc = "conn_cb"]
    ELSE ConnectPg(s, [st EXCEPT !.loc.cbSeen = "false"], promptOk, ctorOk)

\* Lines 58-60.
ClearGlobals(st) ==
    [st EXCEPT !.cb = None, !.pg = None, !.agent = NoAgent]

\* CleanupPg with the close of the second client left out.
CleanupPgSkipsClose(s, st, promptOk, ctorOk) ==
    ConnectCb(s, ClearGlobals(st), promptOk, ctorOk)

\* Second iteration of the cleanup loop of init_agent, and what follows it.
CleanupPg(s, st, promptOk, ctorOk) ==
    IF st.loc.snapPg # None
    THEN CallClose(st, st.loc.snapPg, "close_pg")
    ELSE ConnectCb(s, ClearGlobals(st), promptOk, ctorOk)

\* First iteration of the cleanup loop of init_agent, and what follows it.
CleanupCb(s, st, promptOk, ctorOk) ==
    IF st.loc.snapCb # None
    THEN CallClose(st, st.loc.snapCb, "close_cb")
    ELSE CleanupPg(s, st, promptOk, ctorOk)

\* Lines 123-134: second iteration of the loop of on_chat_end, then the clearing.
EndClear(st) ==
    Return([st EXCEPT !.cb = None, !.pg = None,
                      !.ctl = "UNINITIALIZED",
                      !.loc.ok = TRUE])

EndCleanupPg(st) ==
    IF st.loc.snapPg # None
    THEN CallClose(st, st.loc.snapPg, "end_pg")
    ELSE EndClear(st)

EndCleanupCb(st) ==
    IF st.loc.snapCb # None
    THEN CallClose(st, st.loc.snapCb, "end_cb")
    ELSE EndCleanupPg(st)

\* close() raised something that except RuntimeError does not catch:
\* on_chat_end is left by the exception, the session is over all the same.
EndRaised(st) ==
    Return([st EXCEPT !.ctl = "UNINITIALIZED",
                      !.loc.ok = FALSE, !.loc.err = "OtherError"])

\* MessageReplied with the agent dropped when agent.run raises.
MessageRepliedDiscardsAgent(st, o) ==
    IF o = "content" THEN Return(Send([st EXCEPT !.loc.ok = TRUE], "Response", "content"))
    ELSE IF o = "empty" THEN Return(Send([st EXCEPT !.loc.ok = TRUE], "Response", "NoResponseGenerated"))
    ELSE Return(Send([st EXCEPT !.agent = NoAgent,
                                !.loc.ok = FALSE, !.loc.err = "RunError"], "Error", "RunError"))

\* MessageReplied without the fallback text: empty content is not answered.
MessageRepliedEmptyUnanswered(st, o) ==
    IF o = "content" THEN Return(Send([st EXCEPT !.loc.ok = TRUE], "Response", "content"))
    ELSE IF o = "empty" THEN Return([st EXCEPT !.loc.ok = TRUE])
    ELSE Return(Send([st EXCEPT !.loc.ok = FALSE, !.loc.err = "RunError"], "Error", "RunError"))

\* Lines 144-148: agent.run returned or raised.
MessageReplied(st, o) ==
    IF o = "content" THEN Return(Send([st EXCEPT !.loc.ok = TRUE], "Response", "content"))
    ELSE IF o = "empty" THEN Return(Send([st EXCEPT !.loc.ok = TRUE], "Response", "NoResponseGenerated"))
    ELSE Return(Send([st EXCEPT !.loc.ok = FALSE, !.loc.err = "RunError"], "Error", "RunError"))

\* Lines 140-145: the readiness check, then the call of agent.run.
MessageReceived(st) ==
    IF st.agent = NoAgent
    THEN Return(Send([st EXCEPT !.loc.ok = FALSE, !.loc.err = "NotReady"],
                     "AgentNotReady", "refresh"))
    ELSE [st EXCEPT !.pc = "msg_run", !.loc.runs = @ + 1, !.loc.runAgent = st.agent.id]

Alive == exitCode = Running

Idle(s) == Alive /\ pc[s] = "idle"

\* init_agent is entered: a new invocation, its locals, the list of the loop.
EnterInit(st, cbk, sentBefore) ==
    LET st1 == [st EXCEPT !.nInits = @ + 1] IN
    [st1 EXCEPT !.loc = NewLoc(st1, cbk, sentBefore)]

\* Lines 96-100.  A chat starts in a session that has none: at process start,
\* or after its previous chat ended.
on_chat_start(s) ==
    /\ Idle(s)
    /\ ctl[s] = "UNINITIALIZED"
    /\ nInits < MaxInits
    /\ \E promptOk \in BOOLEAN, ctorOk \in BOOLEAN :
          Commit(s, CleanupCb(s, EnterInit([Store(s) EXCEPT !.ui = "chat"], "start", <<>>),
                              promptOk, ctorOk))
    /\ UNCHANGED exitCode

\* Lines 151-156.
on_reset_action(s) ==
    /\ Idle(s)
    /\ ui[s] = "actions"
    /\ nInits < MaxInits
    /\ \E promptOk \in BOOLEAN, ctorOk \in BOOLEAN :
          Commit(s, CleanupCb(s, EnterInit(Store(s), "reset",
                                           <<[kind |-> "Resetting", text |-> "ok"]>>),
                              promptOk, ctorOk))
    /\ UNCHANGED exitCode

\* Lines 162-181: load_dotenv(override=True), the flags re-read, init_agent.
on_reload_env_action(s) ==
    /\ Idle(s)
    /\ ui[s] = "actions"
    /\ nInits < MaxInits
    /\ \E cbA \in BOOLEAN, pgA \in BOOLEAN, promptOk \in BOOLEAN, ctorOk \in BOOLEAN :
          Commit(s, CleanupCb(s, EnterInit([Store(s) EXCEPT !.CB_MCP_ACTIVE = cbA,
                                                            !.PG_MCP_ACTIVE = pgA],
                                           "reload",
                                           <<[kind |-> "Reloading", text |-> "ok"]>>),
                              promptOk, ctorOk))
    /\ UNCHANGED exitCode

\* await client.close() of the first iteration of init_agent's loop is over.
init_close_cb(s) ==
    /\ Alive
    /\ pc[s] = "close_cb"
    /\ \E o \in CloseOutcomes, promptOk \in BOOLEAN, ctorOk \in BOOLEAN :
          Commit(s, IF o = "OtherError"
                      THEN InitFailed(Store(s), "OtherError")
                      ELSE CleanupPg(s, CloseReturned(Store(s), loc[s].snapCb, o),
                                     promptOk, ctorOk))
    /\ UNCHANGED exitCode

\* await client.close() of the second iteration is over.
init_close_pg(s) ==
    /\ Alive
    /\ pc[s] = "close_pg"
    /\ \E o \in CloseOutcomes, promptOk \in BOOLEAN, ctorOk \in BOOLEAN :
          Commit(s, IF o = "OtherError"
                      THEN InitFailed(Store(s), "OtherError")
                      ELSE ConnectCb(s, ClearGlobals(CloseReturned(Store(s), loc[s].snapPg, o)),
                                     promptOk, ctorOk))
    /\ UNCHANGED exitCode

\* connect_cb with the failure of connect_sse swallowed.
connect_cb_swallow(s) ==
    /\ Alive
    /\ pc[s] = "conn_cb"
    /\ \E o \in ConnectOutcomes, promptOk \in BOOLEAN, ctorOk \in BOOLEAN :
          Commit(s, IF o = "raise"
                      THEN ConnectPg(s, Store(s), promptOk, ctorOk)
                      ELSE ConnectPg(s, [Store(s) EXCEPT
                                            !.connected = @ \cup {MCPClient(loc[s].inv, s, "cb")},
                                            !.loc.cbOk = TRUE],
                                     promptOk, ctorOk))
    /\ UNCHANGED exitCode

\* connect_cb with a failed connect_sse tried again.
connect_cb_retry(s) ==
    /\ Alive
    /\ pc[s] = "conn_cb"
    /\ \E o \in ConnectOutcomes, promptOk \in BOOLEAN, ctorOk \in BOOLEAN :
          Commit(s, IF o = "raise"
                      THEN [Store(s) EXCEPT !.loc.cbConnects = @ + 1]
                      ELSE ConnectPg(s, [Store(s) EXCEPT
                                            !.connected = @ \cup {MCPClient(loc[s].inv, s, "cb")},
                                            !.loc.cbOk = TRUE],
                                     promptOk, ctorOk))
    /\ UNCHANGED exitCode

\* await cb_mcp_client.connect_sse(...) is over.
connect_cb(s) ==
    /\ Alive
    /\ pc[s] = "conn_cb"
    /\ \E o \in ConnectOutcomes, promptOk \in BOOLEAN, ctorOk \in BOOLEAN :
          Commit(s, IF o = "raise"
                      THEN InitFailed(Store(s), "ConnectError")
                      ELSE ConnectPg(s, [Store(s) EXCEPT
                                            !.connected = @ \cup {MCPClient(loc[s].inv, s, "cb")},
                                            !.loc.cbOk = TRUE],
                                     promptOk, ctorOk))
    /\ UNCHANGED exitCode

\* await pg_mcp_client.connect_sse(...) is over.
connect_pg(s) ==
    /\ Alive
    /\ pc[s] = "conn_pg"
    /\ \E o \in ConnectOutcomes, promptOk \in BOOLEAN, ctorOk \in BOOLEAN :
          Commit(s, IF o = "raise"
                      THEN InitFailed(Store(s), "ConnectError")
                      ELSE BuildAgent(s, [Store(s) EXCEPT
                                             !.connected = @ \cup {MCPClient(loc[s].inv, s, "pg")},
                                             !.loc.pgOk = TRUE],
                                      promptOk, ctorOk))
    /\ UNCHANGED exitCode

\* Lines 123-130: on_chat_end is entered and runs to its first await.  The
\* page of the session stays as it is: the handlers of on_message and of the
\* action buttons remain registered and can still be delivered events.
on_chat_end(s) ==
    /\ Idle(s)
    /\ ctl[s] # "UNINITIALIZED"
    /\ Commit(s, EndCleanupCb([Store(s) EXCEPT !.loc = NewLoc(Store(s), "end", <<>>)]))
    /\ UNCHANGED exitCode

end_close_cb(s) ==
    /\ Alive
    /\ pc[s] = "end_cb"
    /\ \E o \in CloseOutcomes :
          Commit(s, IF o = "OtherError"
                      THEN EndRaised(Store(s))
                      ELSE EndCleanupPg(CloseReturned(Store(s), loc[s].snapCb, o)))
    /\ UNCHANGED exitCode

end_close_pg(s) ==
    /\ Alive
    /\ pc[s] = "end_pg"
    /\ \E o \in CloseOutcomes :
          Commit(s, IF o = "OtherError"
                      THEN EndRaised(Store(s))
                      ELSE EndClear(CloseReturned(Store(s), loc[s].snapPg, o)))
    /\ UNCHANGED exitCode

\* Lines 137-145.
on_message(s) ==
    /\ Idle(s)
    /\ ui[s] # "closed"
    /\ Commit(s, MessageReceived([Store(s) EXCEPT !.loc = NewLoc(Store(s), "message", <<>>)]))
    /\ UNCHANGED exitCode

\* await agent.run(message.content) is over.
agent_run(s) ==
    /\ Alive
    /\ pc[s] = "msg_run"
    /\ \E o \in RunOutcomes : Commit(s, MessageReplied(Store(s), o))
    /\ UNCHANGED exitCode

\* os_exit with the teardown of on_chat_end run first.
os_exit_teardown(st) ==
    [st EXCEPT !.closeCalled = @ \cup ({st.cb, st.pg} \ {None}),
               !.loc.closes = {st.cb, st.pg} \ {None},
               !.cb = None, !.pg = None]

\* Lines 195-197: no cleanup before _os._exit(0).
os_exit(st) == st

\* Lines 188-197: the farewell message, then _os._exit(0).  The callback
\* never returns; last shows what it did.
on_exit_action(s) ==
    /\ Idle(s)
    /\ ui[s] = "actions"
    /\ exitCode' = 0
    /\ LET st == os_exit(Send([Store(s) EXCEPT !.loc = NewLoc(Store(s), "exit", <<>>)],
                              "ShuttingDown", "ok"))
       IN Commit(s, [st EXCEPT !.pc = "exit", !.last = [s |-> s, loc |-> st.loc]])

Init ==
    /\ agent = NoAgent
    /\ cb_mcp_client = None
    /\ pg_mcp_client = None
    /\ CB_MCP_ACTIVE \in BOOLEAN
    /\ PG_MCP_ACTIVE \in BOOLEAN
    /\ closeCalled = {}
    /\ connected = {}
    /\ nInits = 0
    /\ exitCode = Running
    /\ ui = [s \in Sessions |-> "closed"]
    /\ ctl = [s \in Sessions |-> "UNINITIALIZED"]
    /\ pc = [s \in Sessions |-> "idle"]
    /\ loc = [s \in Sessions |-> IdleLoc]
    /\ last = Quiet
    /\ swallowed = None

Next ==
    \E s \in Sessions :
        \/ on_chat_start(s)
        \/ on_reset_action(s)
        \/ on_reload_env_action(s)
        \/ init_close_cb(s)
        \/ init_close_pg(s)
        \/ connect_cb(s)
        \/ connect_pg(s)
        \/ on_chat_end(s)
        \/ end_close_cb(s)
        \/ end_close_pg(s)
        \/ on_message(s)
        \/ agent_run(s)
        \/ on_exit_action(s)

Spec == Init /\ [][Next]_vars

TypeOK ==
    /\ nInits \in 0..MaxInits
    /\ exitCode \in {Running, 0}
    /\ \A s \in Sessions : pc[s] \in {"idle", "close_cb", "close_pg", "conn_cb", "conn_pg",
                                      "end_cb", "end_pg", "msg_run", "exit"}

(***************************************************************************)
(* Properties                                                              *)
(***************************************************************************)

InitCallbacks == {"start", "reset", "reload"}

AllNull == agent = NoAgent /\ cb_mcp_client = None /\ pg_mcp_client = None

\* A step of a callback of session s.
StepOf(s) == pc'[s] # pc[s] \/ loc'[s] # loc[s] \/ (last'.s = s /\ last' # last)

Msg(kind, text) == [kind |-> kind, text |-> text]

\* The locals of the callback of session s after the step: those it returned
\* with, or those it goes on with.
LocAfter(s) == IF pc'[s] = "idle" THEN last'.loc ELSE loc'[s]

\* The callback of session s returns in the step.
Returns(s) == pc'[s] = "idle" /\ last'.s = s /\ (pc[s] # "idle" \/ last' # last)

\* C1: whenever an init_agent invocation (from start, reset or reload) fails,
\* at whatever step, agent, cb_mcp_client and pg_mcp_client are all None
\* when its callback returns.
C1_FailedInitLeavesNull ==
    (last.loc.cbk \in InitCallbacks /\ ~last.loc.ok) => AllNull

\* C2: a message handled while the controller of its session is
\* UNINITIALIZED or ERROR gets the 'Agent not ready' notice and agent.run is
\* not called; agent.run is called only in READY.
C2_RunOnlyWhenReady ==
    /\ \A s \in Sessions : pc[s] = "msg_run" => ctl[s] = "READY"
    /\ (last.loc.cbk = "message" /\ ctl[last.s] # "READY") =>
          /\ last.loc.runs = 0
          /\ last.loc.sent = <<Msg("AgentNotReady", "refresh")>>

\* C3: when on_chat_end returns, close has been called on every handle that
\* was open, the controller is UNINITIALIZED, and agent, cb_mcp_client and
\* pg_mcp_client are all None.
C3_ChatEndClearsState ==
    last.loc.cbk = "end" =>
        /\ ({last.loc.snapCb, last.loc.snapPg} \ {None}) \subseteq last.loc.closes
        /\ ctl[last.s] = "UNINITIALIZED"
        /\ AllNull

\* C4: whenever agent is not None, it was built by an init_agent invocation
\* that read at least one backend as active, whose connect_sse succeeded for
\* every backend it read as active, and whose prompt loaded; agent.run is
\* only ever called on such an agent.
C4_AgentFullyBuilt ==
    /\ agent # NoAgent =>
          /\ agent.cbActive \/ agent.pgActive
          /\ agent.cbActive => agent.cbConnected
          /\ agent.pgActive => agent.pgConnected
          /\ agent.prompt
          /\ agent.id \in 1..nInits
    /\ \A s \in Sessions : pc[s] = "msg_run" => loc[s].runAgent \in 1..nInits

C4_Witness ==
    /\ agent # NoAgent
    /\ agent.cbActive /\ agent.pgActive
    /\ \E s \in Sessions : pc[s] = "msg_run" /\ loc[s].runAgent = agent.id

\* C5: an initialization entered with both flags false (and the flags still
\* false when it ends) fails with 'No DB available', attempts no
\* connect, and leaves agent and both handles None, whatever was there before.
C5_ZeroBackendsFailsClean ==
    (/\ last.loc.cbk \in InitCallbacks
     /\ ~last.loc.cfgCb /\ ~last.loc.cfgPg
     /\ ~CB_MCP_ACTIVE /\ ~PG_MCP_ACTIVE
     /\ last.loc.cbSeen # "true" /\ last.loc.pgSeen # "true") =>
        /\ ~last.loc.ok
        /\ last.loc.err = "NoDBAvailable"
        /\ last.loc.cbConnects = 0 /\ last.loc.pgConnects = 0
        /\ AllNull

\* C6: the step in which agent.run raises sends exactly one 'Error' message
\* and leaves agent, both handles and the controller state as they were;
\* a message that finds an agent is forwarded to that very agent.
C6_RunFailureLeavesSession ==
    [][\A s \in Sessions :
          /\ (pc[s] = "msg_run" /\ pc'[s] = "idle" /\ last'.loc.err = "RunError") =>
                /\ last'.loc.sent = <<Msg("Error", "RunError")>>
                /\ agent' = agent
                /\ cb_mcp_client' = cb_mcp_client
                /\ pg_mcp_client' = pg_mcp_client
                /\ ctl' = ctl
                /\ ui' = ui
          /\ (pc[s] = "idle" /\ pc'[s] = "msg_run") =>
                /\ agent # NoAgent
                /\ loc'[s].runAgent = agent.id
                /\ agent' = agent]_vars

C6_Witness ==
    /\ last.loc.cbk = "message" /\ last.loc.err = "RunError"
    /\ ctl[last.s] = "READY"
    /\ agent # NoAgent /\ agent.id = last.loc.runAgent
    /\ cb_mcp_client # None /\ pg_mcp_client # None

\* C7: an init_agent invocation that has created a handle has, before that,
\* called close on every handle that was open when it was entered.
C7_CloseBeforeReopen ==
    \A r \in {loc[s] : s \in Sessions} \cup {last.loc} :
        (/\ r.cbk \in InitCallbacks
         /\ r.cbSeen = "true" \/ r.pgSeen = "true") =>
            ({r.snapCb, r.snapPg} \ {None}) \subseteq r.closes

C7_Witness ==
    \E s \in Sessions :
        /\ loc[s].cbk = "reset" /\ pc[s] = "conn_cb"
        /\ loc[s].snapCb # None /\ loc[s].snapPg # None
        /\ loc[s].closes = {loc[s].snapCb, loc[s].snapPg}

\* C8: no step of a callback of one session changes the agent another
\* session built, calls close on a handle another session created, or
\* replaces such a handle in cb_mcp_client or pg_mcp_client, while that other
\* session is READY.
C8_SessionsAreIsolated ==
    [][\A s, t \in Sessions :
          (s # t /\ StepOf(t) /\ ctl[s] = "READY") =>
              /\ agent.by = s => agent' = agent
              /\ cb_mcp_client.by = s => cb_mcp_client' = cb_mcp_client
              /\ pg_mcp_client.by = s => pg_mcp_client' = pg_mcp_client
              /\ \A h \in closeCalled' \ closeCalled : h.by # s]_vars

\* C9: the exit action ends the process with code 0, calls close on nothing
\* and leaves agent and both handles alone; no step follows the exit.
C9_ExitSkipsTeardown ==
    [][/\ (Alive /\ ~Alive') =>
             /\ exitCode' = 0
             /\ last'.loc.cbk = "exit"
             /\ last'.loc.closes = {}
             /\ agent' = agent
             /\ cb_mcp_client' = cb_mcp_client
             /\ pg_mcp_client' = pg_mcp_client
             /\ closeCalled' = closeCalled
       /\ ~Alive => UNCHANGED vars]_vars

C9_Witness ==
    /\ ~Alive
    /\ agent # NoAgent
    /\ cb_mcp_client # None /\ cb_mcp_client \notin closeCalled
    /\ pg_mcp_client # None /\ pg_mcp_client \notin closeCalled

C11_FailuresAreMessages ==
    /\ ~Alive <=> last.loc.cbk = "exit"
    /\ \A s \in Sessions : loc[s].cbk = "message" => loc[s].sent = <<>>
    /\ last.loc.cbk = "message" =>
          /\ Len(last.loc.sent) = 1
          /\ last.loc.sent[1] \in
                (IF last.loc.err = "NotReady" THEN {Msg("AgentNotReady", "refresh")}
                 ELSE IF last.loc.err = "RunError" THEN {Msg("Error", "RunError")}
                 ELSE {Msg("Response", "content"), Msg("Response", "NoResponseGenerated")})
    /\ (last.loc.cbk \in InitCallbacks /\ ~last.loc.ok) =>
          /\ last.loc.err # "none"
          /\ last.loc.sent[Len(last.loc.sent)] = Msg(FailureKind(last.loc.cbk), last.loc.err)

C11_Witness ==
    /\ Alive
    /\ last.loc.cbk = "message"
    /\ last.loc.sent = <<Msg("Response", "NoResponseGenerated")>>
    /\ \E s \in Sessions : ctl[s] = "ERROR"

\* C12: after a successful initialization the agent's tools are the tools
\* of the Couchbase client followed by those of the PostgreSQL client, as many
\* as the backends the invocation read as active report; the status message
\* of a start lists exactly those backends, each with its count.
C12_ToolsMatchStatus ==
    (last.loc.cbk \in InitCallbacks /\ last.loc.ok) =>
        LET cbN == IF last.loc.cbSeen = "true" THEN CbToolCount ELSE 0
            pgN == IF last.loc.pgSeen = "true" THEN PgToolCount ELSE 0
            cbT == [i \in 1..cbN |-> [client |-> MCPClient(last.loc.inv, last.s, "cb"), i |-> i]]
            pgT == [i \in 1..pgN |-> [client |-> MCPClient(last.loc.inv, last.s, "pg"), i |-> i]]
        IN /\ agent.tools = cbT \o pgT
           /\ Len(agent.tools) = cbN + pgN
           /\ last.loc.cbk = "start" =>
                 last.loc.status =
                     (IF last.loc.cbSeen = "true"
                      THEN <<[backend |-> "Couchbase MCP", tools |-> CbToolCount]>> ELSE <<>>)
                     \o (IF last.loc.pgSeen = "true"
                         THEN <<[backend |-> "PostgreSQL MCP", tools |-> PgToolCount]>> ELSE <<>>)

\* C13: when a reset is entered every agent built so far is older than the
\* invocation, and when it returns successfully agent is the agent this
\* invocation built and no handle in cb_mcp_client or pg_mcp_client is one
\* that was held when the reset was entered.
C13_ResetDiscardsInstances ==
    [][\A s \in Sessions :
          /\ (pc[s] = "idle" /\ StepOf(s) /\ LocAfter(s).cbk = "reset") =>
                agent.id < LocAfter(s).inv
          /\ (Returns(s) /\ last'.loc.cbk = "reset" /\ last'.loc.ok) =>
                /\ agent' # NoAgent
                /\ agent'.id = last'.loc.inv
                /\ agent'.by = s
                /\ \A h \in {cb_mcp_client', pg_mcp_client'} \ {None} :
                      h \notin {last'.loc.snapCb, last'.loc.snapPg}]_vars

C13_Witness ==
    /\ last.loc.cbk = "reset" /\ last.loc.ok
    /\ last.loc.snapCb # None /\ last.loc.snapPg # None
    /\ last.loc.cfgCb = CB_MCP_ACTIVE /\ last.loc.cfgPg = PG_MCP_ACTIVE
    /\ cb_mcp_client = MCPClient(last.loc.inv, last.s, "cb")
    /\ pg_mcp_client = MCPClient(last.loc.inv, last.s, "pg")
    /\ agent.id = last.loc.inv

\* init_agent is past its cleanup: it has read CB_MCP_ACTIVE, and each global
\* names the client this invocation created for it, or nothing.
InitContinued(s) ==
    LET r == LocAfter(s) IN
    /\ r.cbSeen # "unread"
    /\ cb_mcp_client' = (IF r.cbSeen = "true" THEN MCPClient(r.inv, s, "cb") ELSE None)
    /\ pg_mcp_client' = (IF r.pgSeen = "true" THEN MCPClient(r.inv, s, "pg") ELSE None)
    /\ agent'.id \in {0, r.inv}

EndCleared(s) ==
    /\ Returns(s) /\ last'.loc.ok
    /\ cb_mcp_client' = None /\ pg_mcp_client' = None

\* C14: a step in which close() raises a RuntimeError goes on as if close had
\* returned: after the first handle, close is called on the second one when
\* there is one; after the last one, both globals are cleared, and init_agent
\* goes on to its connect steps while on_chat_end returns normally.
C14_CloseFailureTolerated ==
    [][\A s \in Sessions :
          (StepOf(s) /\ swallowed' # None) =>
              /\ pc[s] \in {"close_cb", "end_cb"} =>
                    /\ swallowed' = loc[s].snapCb
                    /\ loc[s].snapPg # None =>
                          /\ pc'[s] = (IF pc[s] = "close_cb" THEN "close_pg" ELSE "end_pg")
                          /\ loc[s].snapPg \in loc'[s].closes
                          /\ loc[s].snapPg \in closeCalled'
                    /\ loc[s].snapPg = None =>
                          IF pc[s] = "close_cb" THEN InitContinued(s) ELSE EndCleared(s)
              /\ pc[s] = "close_pg" => (swallowed' = loc[s].snapPg /\ InitContinued(s))
              /\ pc[s] = "end_pg" => (swallowed' = loc[s].snapPg /\ EndCleared(s))
              /\ pc[s] \in {"close_cb", "close_pg", "end_cb", "end_pg"}]_vars

C14_Witness ==
    \E s \in Sessions :
        /\ pc[s] = "close_pg"
        /\ swallowed # None /\ swallowed = loc[s].snapCb
        /\ loc[s].snapPg \in closeCalled

\* C15: when a start, reset or reload has returned successfully,
\* cb_mcp_client names a client exactly when CB_MCP_ACTIVE is true and
\* pg_mcp_client names one exactly when PG_MCP_ACTIVE is true.
C15_FlagsDetermineHandles ==
    (last.loc.cbk \in InitCallbacks /\ last.loc.ok) =>
        /\ (cb_mcp_client # None) <=> CB_MCP_ACTIVE
        /\ (pg_mcp_client # None) <=> PG_MCP_ACTIVE

\* C16: in every state, when agent is not None, close has been called on
\* none of the clients whose tools the agent was built with.
C16_AgentHasOpenClients ==
    agent # NoAgent =>
        ({agent.cbTools, agent.pgTools} \ {None}) \cap closeCalled = {}

\* The handles something can still close after the step: those the globals
\* name, and those in the list of a cleanup loop that is still running.
\* close() is only ever called on a handle read from the globals, so a
\* handle outside this set on which close was not called never gets closed.
CloseableAfter ==
    {cb_mcp_client', pg_mcp_client'}
        \cup UNION {{loc'[x].snapCb, loc'[x].snapPg} :
                       x \in {y \in Sessions :
                                 pc'[y] \in {"close_cb", "close_pg", "end_cb", "end_pg"}}}

\* The handles whose connect_sse returns in the step.
ConnectedInStep ==
    {MCPClient(loc[x].inv, x, "cb") :
        x \in {y \in Sessions : pc[y] = "conn_cb" /\ pc'[y] # "conn_cb" /\ LocAfter(y).cbOk}}
    \cup {MCPClient(loc[x].inv, x, "pg") :
        x \in {y \in Sessions : pc[y] = "conn_pg" /\ pc'[y] # "conn_pg" /\ LocAfter(y).pgOk}}

\* C17: no step leaves a connected handle orphaned: after every step, each
\* handle that is connected is named by cb_mcp_client or pg_mcp_client, is
\* in the list of a cleanup loop still running, or has had close called on it.
C17_NoOrphanHandle ==
    [][\A h \in (connected \cup ConnectedInStep) \ {None} :
          \/ h \in CloseableAfter
          \/ h \in closeCalled
          \/ h \in closeCalled']_vars

====
